---- MODULE Spec2Model ----
(***************************************************************************)
(* Conway's Game of Life weak-scaling benchmark (correciones.py).          *)
(*                                                                         *)
(* Two specifications over one set of variables:                           *)
(*   Spec        escalamiento_debil and the __main__ block that calls it:  *)
(*               the loop over lista_procesos, the grid, its row bands,    *)
(*               the warm-up, the timer, the process pool, tiempos.        *)
(*   SpecNucleo  the pure part: JuegoDeLaVida.run on a grid, np.array_split*)
(*               of that grid and worker on every band, for grids of every *)
(*               small shape and content.                                  *)
(***************************************************************************)
EXTENDS Integers, Sequences, FiniteSets, TLC

\* ---------------------------------------------------------------- bounds
MaxCeldas == 3
MaxPasos == 1
MaxProcs == 3
MaxLista == 2
MaxVivas == 1
MaxReloj == 1
MaxFilas == 5
MaxColumnas == 3
MaxArea == 9
MaxPasosNucleo == 2
MaxBandas == 4

\* ------------------------------------------------------------- ndarrays
\* A 2-D uint8 array: its shape and its rows.
Arr(f, c, d) == [filas |-> f, cols |-> c, d |-> d]

Vacia == Arr(0, 0, << >>)

Posiciones(f, c) == (1..f) \X (1..c)

\* The subsets of S with at most k elements.
RECURSIVE HastaK(_, _)
HastaK(S, k) ==
  IF k = 0 THEN {{}}
  ELSE LET menos == HastaK(S, k - 1)
       IN  menos \cup {T \cup {x} : T \in menos, x \in S}

DeVivas(f, c, V) ==
  Arr(f, c, [i \in 1..f |-> [j \in 1..c |-> IF <<i, j>> \in V THEN 1 ELSE 0]])

\* np.random.randint(2, size=(filas, columnas)): any 0/1 content; the model
\* draws the grids with at most k live cells.
randint(f, c, k) == {DeVivas(f, c, V) : V \in HastaK(Posiciones(f, c), k)}

\* np.roll as a shift that does not wrap: what falls off the edge is lost
\* and zeros come in.
np_roll_sin_toro(a, shift, axis) ==
  IF axis = 0
  THEN Arr(a.filas, a.cols,
           [i \in 1..a.filas |->
              IF i - shift \in 1..a.filas THEN a.d[i - shift]
              ELSE [j \in 1..a.cols |-> 0]])
  ELSE Arr(a.filas, a.cols,
           [i \in 1..a.filas |->
              [j \in 1..a.cols |->
                 IF j - shift \in 1..a.cols THEN a.d[i][j - shift] ELSE 0]])

\* np.roll(a, shift, axis): element i of the result is element i - shift of a,
\* indices taken modulo the length of the axis.
np_roll(a, shift, axis) ==
  IF axis = 0
  THEN Arr(a.filas, a.cols,
           [i \in 1..a.filas |-> a.d[((i - 1 - shift) % a.filas) + 1]])
  ELSE Arr(a.filas, a.cols,
           [i \in 1..a.filas |->
              [j \in 1..a.cols |-> a.d[i][((j - 1 - shift) % a.cols) + 1]]])

\* uint8 addition, element by element.
mas(a, b) ==
  Arr(a.filas, a.cols,
      [i \in 1..a.filas |-> [j \in 1..a.cols |-> (a.d[i][j] + b.d[i][j]) % 256]])

contar_vecinos(subgrilla) ==
  mas(mas(mas(mas(mas(mas(mas(
      np_roll(np_roll(subgrilla, 1, 0), 1, 1),
      np_roll(np_roll(subgrilla, 1, 0), 0, 1)),
      np_roll(np_roll(subgrilla, 1, 0), -1, 1)),
      np_roll(np_roll(subgrilla, 0, 0), 1, 1)),
      np_roll(np_roll(subgrilla, 0, 0), -1, 1)),
      np_roll(np_roll(subgrilla, -1, 0), 1, 1)),
      np_roll(np_roll(subgrilla, -1, 0), 0, 1)),
      np_roll(np_roll(subgrilla, -1, 0), -1, 1))

\* ((vecinos == 3) | ((grilla == 1) & (vecinos == 2))).astype(np.uint8):
\* a new array.
regla(grilla, vecinos) ==
  Arr(grilla.filas, grilla.cols,
      [i \in 1..grilla.filas |->
         [j \in 1..grilla.cols |->
            IF vecinos.d[i][j] = 3 \/ (grilla.d[i][j] = 1 /\ vecinos.d[i][j] = 2)
            THEN 1 ELSE 0]])

\* ------------------------------------------------------- JuegoDeLaVida
JuegoNulo == [filas |-> 0, columnas |-> 0, pasos |-> 0, procesos |-> 0,
              grilla |-> Vacia]

\* __init__ with the grid np.random.randint drew.
JuegoDeLaVida(filas, columnas, pasos_, procesos, g) ==
  [filas |-> filas, columnas |-> columnas, pasos |-> pasos_,
   procesos |-> procesos, grilla |-> g]

step(j) ==
  LET vecinos == contar_vecinos(j.grilla)
  IN  [j EXCEPT !.grilla = regla(j.grilla, vecinos)]

\* range(n): the number of iterations of "for _ in range(n)".
rango(n) == IF n > 0 THEN n ELSE 0

RECURSIVE iterar_step(_, _)
iterar_step(j, k) == IF k = 0 THEN j ELSE iterar_step(step(j), k - 1)

run(j) == iterar_step(j, rango(j.pasos))

\* -------------------------------------------------------------- worker
\* A call of worker: entrada is the array object it was given (its cells as
\* they are now), grilla is juego.grilla, quedan the loop iterations left.
worker_entra(subgrilla, pasos_) ==
  [entrada |-> subgrilla, grilla |-> subgrilla, quedan |-> rango(pasos_)]

WNulo == [entrada |-> Vacia, grilla |-> Vacia, quedan |-> 0]

\* The new generation written into the array passed in
\* (juego.grilla[:] = ...) instead of bound to a new array.
worker_paso_en_sitio(w) ==
  LET vecinos == contar_vecinos(w.grilla)
  IN  [entrada |-> regla(w.grilla, vecinos), grilla |-> regla(w.grilla, vecinos),
       quedan |-> w.quedan - 1]

\* worker's copy of the rule with the survival term lost: vecinos == 3 only.
worker_paso_b3(w) ==
  LET vecinos == contar_vecinos(w.grilla)
  IN  [w EXCEPT !.grilla = regla(Arr(w.grilla.filas, w.grilla.cols,
                                     [i \in 1..w.grilla.filas |->
                                        [j \in 1..w.grilla.cols |-> 0]]),
                                 vecinos),
                !.quedan = w.quedan - 1]

\* One iteration of worker's loop: juego.grilla is rebound to the new array
\* astype returns; the array passed in is not written.
worker_paso(w) ==
  LET vecinos == contar_vecinos(w.grilla)
  IN  [w EXCEPT !.grilla = regla(w.grilla, vecinos), !.quedan = w.quedan - 1]

RECURSIVE worker_bucle(_)
worker_bucle(w) == IF w.quedan = 0 THEN w ELSE worker_bucle(worker_paso(w))

\* The whole call; .grilla is what it returns.
worker(subgrilla, pasos_) == worker_bucle(worker_entra(subgrilla, pasos_))

\* --------------------------------------------------------- array_split
\* The whole remainder given to the first section.
seccion_resto_al_primero(total, n, i) ==
  IF i = 1 THEN (total \div n) + (total % n) ELSE total \div n

\* np.array_split(ary, n, axis=0) on total rows: Neach, extras = divmod(total, n);
\* the first extras sections get Neach + 1 rows, the others Neach.
seccion(total, n, i) ==
  IF i <= total % n THEN (total \div n) + 1 ELSE total \div n

\* div_points: the cumulative sum of the section sizes.
RECURSIVE div_point(_, _, _)
div_point(total, n, k) ==
  IF k = 0 THEN 0 ELSE div_point(total, n, k - 1) + seccion(total, n, k)

\* Sections of total // n rows each, the remainder left out.
array_split_sin_resto(ary, n) ==
  [i \in 1..n |-> [ini |-> (i - 1) * (ary.filas \div n),
                   fin |-> i * (ary.filas \div n)]]

\* The sections as views ary[ini:fin] of the parent array.
array_split(ary, n) ==
  [i \in 1..n |-> [ini |-> div_point(ary.filas, n, i - 1),
                   fin |-> div_point(ary.filas, n, i)]]

\* The cells a view shows.
vista(ary, v) == Arr(v.fin - v.ini, ary.cols, SubSeq(ary.d, v.ini + 1, v.fin))

\* The parent array after the memory behind view v holds the cells of sub.
escrita(ary, v, sub) ==
  Arr(ary.filas, ary.cols,
      [i \in 1..ary.filas |->
         IF v.ini < i /\ i <= v.fin THEN sub.d[i - v.ini] ELSE ary.d[i]])

\* int(np.sqrt(x)) for x >= 0.
raiz(x) == CHOOSE s \in 0..x : s * s <= x /\ x < (s + 1) * (s + 1)

\* ==================================================================
\* State
\* ==================================================================
VARIABLES
  \* escalamiento_debil's arguments
  celdas_por_proceso, pasos, lista_procesos,
  \* its locals
  tiempos, p, lado, juego, subgrillas, inicio, fin, tiempo,
  \* the for loop: how many entries of lista_procesos it has taken, and the
  \* statement the function is at
  idx, pc,
  \* the exception that left the function ("" for none)
  excepcion,
  \* time.time(): the last reading
  reloj,
  \* mp.Pool: the task queue, the worker processes, the results starmap collects
  cola, unidades, resultados,
  \* __main__: the (p, t) pairs zip(procesos, tiempos) hands to the report
  informe,
  \* history: the events of the current iteration, the grid as constructed,
  \* how often each task was taken, the tasks each process took, how many
  \* calls of worker returned in the pool, the iteration in which inicio and
  \* fin were read, one record per sample
  traza, construida, veces, hechas, terminadas, it_inicio, it_fin, registro,
  \* SpecNucleo: a JuegoDeLaVida under run(), the grid it started from, the
  \* loop counter of run, the number of bands, the bands, the worker calls
  n_pc, n_juego, n_inicial, n_hechos, n_bandas, n_partes, n_llamadas

entrada_vars == <<celdas_por_proceso, pasos, lista_procesos>>
pool_vars == <<cola, unidades, resultados, veces, hechas, terminadas>>
crono_vars == <<reloj, inicio, fin, it_inicio, it_fin>>
bucle_vars == <<p, idx, lado, juego, subgrillas, construida>>
salida_vars == <<tiempos, tiempo, registro, informe, excepcion>>
nucleo_vars == <<n_pc, n_juego, n_inicial, n_hechos, n_bandas, n_partes, n_llamadas>>
harness_vars == <<entrada_vars, pool_vars, crono_vars, bucle_vars, salida_vars,
                  pc, traza>>
vars == <<harness_vars, nucleo_vars>>

\* Sequences over S of length at most n.
SeqHasta(S, n) == UNION {[1..k -> S] : k \in 0..n}

NucleoQuieto ==
  /\ n_pc = "quieto"
  /\ n_juego = JuegoNulo
  /\ n_inicial = Vacia
  /\ n_hechos = 0
  /\ n_bandas = 0
  /\ n_partes = << >>
  /\ n_llamadas = << >>

\* escalamiento_debil entered: line 67.
HarnessInicial ==
  /\ tiempos = << >>
  /\ p = 0
  /\ lado = 0
  /\ juego = JuegoNulo
  /\ subgrillas = << >>
  /\ inicio = 0
  /\ fin = 0
  /\ tiempo = 0
  /\ idx = 0
  /\ pc = "for"
  /\ excepcion = ""
  /\ reloj = 0
  /\ cola = << >>
  /\ unidades = << >>
  /\ resultados = << >>
  /\ informe = << >>
  /\ traza = << >>
  /\ construida = Vacia
  /\ veces = << >>
  /\ hechas = << >>
  /\ terminadas = 0
  /\ it_inicio = 0
  /\ it_fin = 0
  /\ registro = << >>

Init ==
  /\ celdas_por_proceso \in -1..MaxCeldas
  /\ pasos \in -1..MaxPasos
  /\ lista_procesos \in SeqHasta(-1..MaxProcs, MaxLista)
  /\ HarnessInicial
  /\ NucleoQuieto

\* ==================================================================
\* escalamiento_debil
\* ==================================================================
\* The warm-up moved below the reading of inicio.
Orden_calentar_cronometrado ==
  <<"lado", "juego", "split", "inicio", "calentar", "pool", "starmap",
    "esperar", "fin", "registrar", "for">>

\* The sample computed and appended before fin is read.
Orden_registrar_antes ==
  <<"lado", "juego", "split", "calentar", "inicio", "pool", "starmap",
    "esperar", "registrar", "fin", "for">>

\* The statements of the loop body in program order (lines 70 to 86); after
\* the last the loop takes its next entry.
Orden == <<"lado", "juego", "split", "calentar", "inicio", "pool", "starmap",
           "esperar", "fin", "registrar", "for">>

sigue(l) == Orden[(CHOOSE k \in 1..(Len(Orden) - 1) : Orden[k] = l) + 1]

\* for p in lista_procesos (line 68), an entry left.
ForSiguiente ==
  /\ pc = "for"
  /\ idx < Len(lista_procesos)
  /\ idx' = idx + 1
  /\ p' = lista_procesos[idx + 1]
  /\ pc' = "lado"
  /\ traza' = << >>
  /\ UNCHANGED <<entrada_vars, pool_vars, crono_vars, salida_vars, nucleo_vars,
                 lado, juego, subgrillas, construida>>

\* lado = int(np.sqrt(celdas_por_proceso * p)) (line 70).
CalcularLado ==
  /\ pc = "lado"
  /\ celdas_por_proceso * p >= 0
  /\ lado' = raiz(celdas_por_proceso * p)
  /\ pc' = sigue("lado")
  /\ UNCHANGED <<entrada_vars, pool_vars, crono_vars, salida_vars, nucleo_vars,
                 p, idx, juego, subgrillas, construida, traza>>

\* np.sqrt of a negative number is nan, and int(nan) raises ValueError.
CalcularLadoError ==
  /\ pc = "lado"
  /\ celdas_por_proceso * p < 0
  /\ excepcion' = "ValueError"
  /\ pc' = "error"
  /\ UNCHANGED <<entrada_vars, pool_vars, crono_vars, bucle_vars, nucleo_vars,
                 tiempos, tiempo, registro, informe, traza>>

\* juego = JuegoDeLaVida(lado, lado, pasos, p) (line 71).
ConstruirJuego ==
  /\ pc = "juego"
  /\ \E g \in randint(lado, lado, MaxVivas) :
       /\ juego' = JuegoDeLaVida(lado, lado, pasos, p, g)
       /\ construida' = g
  /\ traza' = Append(traza, "construir")
  /\ pc' = sigue("juego")
  /\ UNCHANGED <<entrada_vars, pool_vars, crono_vars, salida_vars, nucleo_vars,
                 p, idx, lado, subgrillas>>

\* subgrillas = np.array_split(juego.grilla, p, axis=0) (line 74).
Dividir ==
  /\ pc = "split"
  /\ p >= 1
  /\ subgrillas' = array_split(juego.grilla, p)
  /\ traza' = Append(traza, "partir")
  /\ pc' = sigue("split")
  /\ UNCHANGED <<entrada_vars, pool_vars, crono_vars, salida_vars, nucleo_vars,
                 p, idx, lado, juego, construida>>

\* array_split raises ValueError('number sections must be larger than 0.').
DividirError ==
  /\ pc = "split"
  /\ p <= 0
  /\ excepcion' = "ValueError"
  /\ pc' = "error"
  /\ UNCHANGED <<entrada_vars, pool_vars, crono_vars, bucle_vars, nucleo_vars,
                 tiempos, tiempo, registro, informe, traza>>

\* _ = worker(subgrillas[0], 1) (line 77). subgrillas[0] is a view of
\* juego.grilla: what the call leaves in the array it was given is what the
\* grid holds in those rows afterwards.
Calentamiento ==
  /\ pc = "calentar"
  /\ LET w == worker(vista(juego.grilla, subgrillas[1]), 1)
     IN  juego' = [juego EXCEPT !.grilla = escrita(juego.grilla, subgrillas[1], w.entrada)]
  /\ traza' = Append(traza, "calentar")
  /\ pc' = sigue("calentar")
  /\ UNCHANGED <<entrada_vars, pool_vars, crono_vars, salida_vars, nucleo_vars,
                 p, idx, lado, subgrillas, construida>>

\* inicio = time.time() (line 80).
TomarInicio ==
  /\ pc = "inicio"
  /\ \E t \in reloj..MaxReloj :
       /\ inicio' = t
       /\ reloj' = t
  /\ it_inicio' = idx
  /\ traza' = Append(traza, "inicio")
  /\ pc' = sigue("inicio")
  /\ UNCHANGED <<entrada_vars, pool_vars, bucle_vars, salida_vars, nucleo_vars,
                 fin, it_fin>>

Libre == [tarea |-> 0, w |-> WNulo]

\* with mp.Pool(processes=p) as pool (line 81): p worker processes.
AbrirPool ==
  /\ pc = "pool"
  /\ unidades' = [u \in 1..p |-> Libre]
  /\ hechas' = [u \in 1..p |-> {}]
  /\ pc' = sigue("pool")
  /\ UNCHANGED <<entrada_vars, crono_vars, bucle_vars, salida_vars, nucleo_vars,
                 cola, resultados, veces, terminadas, traza>>

\* pool.starmap(worker, [(sg, pasos) for sg in subgrillas]) (line 82): one
\* task per sub-grid, in order, each carrying a pickled copy of its cells.
Starmap ==
  /\ pc = "starmap"
  /\ cola' = [i \in 1..Len(subgrillas) |->
                [tarea |-> i, sg |-> vista(juego.grilla, subgrillas[i]),
                 pasos |-> pasos]]
  /\ resultados' = [i \in 1..Len(subgrillas) |-> [listo |-> FALSE, grilla |-> Vacia]]
  /\ veces' = [i \in 1..Len(subgrillas) |-> 0]
  /\ terminadas' = 0
  /\ traza' = Append(traza, "despachar")
  /\ pc' = sigue("starmap")
  /\ UNCHANGED <<entrada_vars, crono_vars, bucle_vars, salida_vars, nucleo_vars,
                 unidades, hechas>>

\* A free worker process reads the task at the head of the queue and leaves
\* it there.
Tomar_sin_quitar(u) ==
  /\ pc = "esperar"
  /\ unidades[u].tarea = 0
  /\ cola # << >>
  /\ LET t == Head(cola)
     IN  /\ unidades' = [unidades EXCEPT ![u] =
                           [tarea |-> t.tarea, w |-> worker_entra(t.sg, t.pasos)]]
         /\ veces' = [veces EXCEPT ![t.tarea] = @ + 1]
         /\ hechas' = [hechas EXCEPT ![u] = @ \cup {t.tarea}]
  /\ cola' = IF veces[Head(cola).tarea] >= 1 THEN Tail(cola) ELSE cola
  /\ UNCHANGED <<entrada_vars, crono_vars, bucle_vars, salida_vars, nucleo_vars,
                 resultados, terminadas, pc, traza>>

\* A free worker process takes the task at the head of the queue.
Tomar(u) ==
  /\ pc = "esperar"
  /\ unidades[u].tarea = 0
  /\ cola # << >>
  /\ LET t == Head(cola)
     IN  /\ unidades' = [unidades EXCEPT ![u] =
                           [tarea |-> t.tarea, w |-> worker_entra(t.sg, t.pasos)]]
         /\ veces' = [veces EXCEPT ![t.tarea] = @ + 1]
         /\ hechas' = [hechas EXCEPT ![u] = @ \cup {t.tarea}]
  /\ cola' = Tail(cola)
  /\ UNCHANGED <<entrada_vars, crono_vars, bucle_vars, salida_vars, nucleo_vars,
                 resultados, terminadas, pc, traza>>

\* One iteration of worker's loop in process u (lines 58 to 60).
Paso(u) ==
  /\ pc = "esperar"
  /\ unidades[u].tarea # 0
  /\ unidades[u].w.quedan > 0
  /\ unidades' = [unidades EXCEPT ![u].w = worker_paso(@)]
  /\ UNCHANGED <<entrada_vars, crono_vars, bucle_vars, salida_vars, nucleo_vars,
                 cola, resultados, veces, hechas, terminadas, pc, traza>>

\* worker returns (line 61): the result goes back and the process is free.
Terminar(u) ==
  /\ pc = "esperar"
  /\ unidades[u].tarea # 0
  /\ unidades[u].w.quedan = 0
  /\ resultados' = [resultados EXCEPT ![unidades[u].tarea] =
                      [listo |-> TRUE, grilla |-> unidades[u].w.grilla]]
  /\ unidades' = [unidades EXCEPT ![u] = Libre]
  /\ terminadas' = terminadas + 1
  /\ UNCHANGED <<entrada_vars, crono_vars, bucle_vars, salida_vars, nucleo_vars,
                 cola, veces, hechas, pc, traza>>

Completas == \A i \in DOMAIN resultados : resultados[i].listo

\* starmap returns when every result is in, and the with block ends the pool.
StarmapRetorna ==
  /\ pc = "esperar"
  /\ Completas
  /\ cola' = << >>
  /\ unidades' = << >>
  /\ resultados' = << >>
  /\ veces' = << >>
  /\ hechas' = << >>
  /\ UNCHANGED terminadas
  /\ traza' = Append(traza, "completar")
  /\ pc' = sigue("esperar")
  /\ UNCHANGED <<entrada_vars, crono_vars, bucle_vars, salida_vars, nucleo_vars>>

\* fin = time.time() (line 83).
TomarFin ==
  /\ pc = "fin"
  /\ \E t \in reloj..MaxReloj :
       /\ fin' = t
       /\ reloj' = t
  /\ it_fin' = idx
  /\ traza' = Append(traza, "fin")
  /\ pc' = sigue("fin")
  /\ UNCHANGED <<entrada_vars, pool_vars, bucle_vars, salida_vars, nucleo_vars,
                 inicio, it_inicio>>

\* tiempo = fin - inicio; tiempos.append(tiempo) (lines 85, 86).
Registrar ==
  /\ pc = "registrar"
  /\ tiempo' = fin - inicio
  /\ tiempos' = Append(tiempos, fin - inicio)
  /\ registro' = Append(registro, [p |-> p, it |-> idx, it_inicio |-> it_inicio,
                                   it_fin |-> it_fin, inicio |-> inicio,
                                   fin |-> fin, traza |-> traza])
  /\ pc' = sigue("registrar")
  /\ UNCHANGED <<entrada_vars, pool_vars, crono_vars, bucle_vars, nucleo_vars,
                 informe, excepcion, traza>>

\* return tiempos (line 89), the loop exhausted.
Retornar ==
  /\ pc = "for"
  /\ idx = Len(lista_procesos)
  /\ pc' = "retorno"
  /\ UNCHANGED <<entrada_vars, pool_vars, crono_vars, bucle_vars, salida_vars,
                 nucleo_vars, traza>>

\* zip(a, b): as many pairs as the shorter has.
zip(a, b) ==
  [i \in 1..(IF Len(a) < Len(b) THEN Len(a) ELSE Len(b)) |-> <<a[i], b[i]>>]

\* __main__: zip(procesos, tiempos) to the plot and the result file
\* (lines 121 to 126).
Informar ==
  /\ pc = "retorno"
  /\ informe' = zip(lista_procesos, tiempos)
  /\ pc' = "hecho"
  /\ UNCHANGED <<entrada_vars, pool_vars, crono_vars, bucle_vars, nucleo_vars,
                 tiempos, tiempo, registro, excepcion, traza>>

Next ==
  \/ ForSiguiente
  \/ CalcularLado
  \/ CalcularLadoError
  \/ ConstruirJuego
  \/ Dividir
  \/ DividirError
  \/ Calentamiento
  \/ TomarInicio
  \/ AbrirPool
  \/ Starmap
  \/ \E u \in DOMAIN unidades : Tomar(u)
  \/ \E u \in DOMAIN unidades : Paso(u)
  \/ \E u \in DOMAIN unidades : Terminar(u)
  \/ StarmapRetorna
  \/ TomarFin
  \/ Registrar
  \/ Retornar
  \/ Informar

Spec == Init /\ [][Next]_vars

\* ==================================================================
\* Properties of escalamiento_debil (Spec)
\* ==================================================================
Cuerpo == {"lado", "juego", "split", "calentar", "inicio", "pool", "starmap",
           "esperar", "fin", "registrar"}

EventosEnOrden == <<"construir", "partir", "calentar", "inicio", "despachar",
                    "completar", "fin">>

EsPrefijo(a, b) == Len(a) <= Len(b) /\ SubSeq(b, 1, Len(a)) = a

Ocurrio(e) == \E k \in DOMAIN traza : traza[k] = e

Ocupadas == {u \in DOMAIN unidades : unidades[u].tarea # 0}

\* C4: in every iteration the events come in the order grid construction,
\* partition, warm-up, timer start, dispatch, completion of all p runs,
\* timer stop; a run is unfinished only between timer start and timer stop,
\* the timer is stopped only when all p runs have returned, and every sample
\* recorded comes from an iteration that went through exactly this order.
C4_Orden ==
  /\ EsPrefijo(traza, EventosEnOrden)
  /\ (cola # << >> \/ Ocupadas # {}) =>
       /\ Ocurrio("inicio")
       /\ Ocurrio("despachar")
       /\ ~Ocurrio("completar")
       /\ ~Ocurrio("fin")
  /\ Ocurrio("completar") => (terminadas = p /\ cola = << >> /\ Ocupadas = {})
  /\ Ocurrio("fin") => (terminadas = p /\ cola = << >> /\ Ocupadas = {})
  /\ \A k \in DOMAIN registro : registro[k].traza = EventosEnOrden

\* An iteration with two or more runs, all returned, and the timer stopped.
C4_Testigo ==
  /\ pc = "registrar"
  /\ p >= 2
  /\ pasos >= 1
  /\ traza = EventosEnOrden
  /\ terminadas = p

\* C5: on normal termination there is one sample per entry of the worker
\* count sequence, the i-th from the i-th entry, each the difference of the
\* fin and inicio read in its own iteration, and the report pairs them in
\* input order; while iteration i runs exactly i - 1 samples are recorded, so
\* no iteration starts before the one before it has recorded its sample.
C5_Muestras ==
  /\ pc \in {"retorno", "hecho"} =>
       /\ excepcion = ""
       /\ Len(tiempos) = Len(lista_procesos)
       /\ Len(registro) = Len(lista_procesos)
       /\ \A i \in DOMAIN tiempos :
            /\ registro[i].p = lista_procesos[i]
            /\ registro[i].it = i
            /\ registro[i].it_inicio = i
            /\ registro[i].it_fin = i
            /\ tiempos[i] = registro[i].fin - registro[i].inicio
  /\ pc = "hecho" =>
       informe = [i \in 1..Len(lista_procesos) |-> <<lista_procesos[i], tiempos[i]>>]
  /\ pc \in Cuerpo => (Len(tiempos) = idx - 1 /\ p = lista_procesos[idx])
  /\ pc = "for" => Len(tiempos) = idx
  /\ (cola # << >> \/ Ocupadas # {}) => (pc = "esperar" /\ Len(unidades) = lista_procesos[idx])

\* Two worker counts, two different samples, reported in input order.
C5_Testigo ==
  /\ pc = "hecho"
  /\ Len(lista_procesos) = 2
  /\ lista_procesos[1] # lista_procesos[2]
  /\ Len(tiempos) = 2
  /\ tiempos[1] # tiempos[2]
  /\ informe = <<<<lista_procesos[1], tiempos[1]>>, <<lista_procesos[2], tiempos[2]>>>>

\* C6: a partition into p <= 0 or p > lado bands fails, so (with
\* celdas_por_proceso >= 1 and pasos >= 0, a configuration valid in itself)
\* an iteration gets past the partition only with 1 <= p <= lado, and no
\* band of zero rows is queued for or handed to a worker.
C6_SinBandasVacias ==
  (celdas_por_proceso >= 1 /\ pasos >= 0) =>
    /\ pc \in {"calentar", "inicio", "pool", "starmap", "esperar", "fin", "registrar"}
         => (1 <= p /\ p <= lado)
    /\ \A k \in DOMAIN cola : cola[k].sg.filas >= 1
    /\ \A u \in Ocupadas : unidades[u].w.entrada.filas >= 1

\* C7: with celdas_por_proceso <= 0, pasos < 0 or a worker count <= 0 the
\* function fails before any worker is dispatched (no timed section is
\* entered) and records no sample for the invalid configuration.
C7_ConfigInvalida ==
  /\ (celdas_por_proceso <= 0 \/ pasos < 0) =>
       /\ pc \notin {"inicio", "pool", "starmap", "esperar", "fin", "registrar"}
       /\ tiempos = << >>
       /\ cola = << >>
       /\ Ocupadas = {}
  /\ (pc \in Cuerpo /\ p <= 0) =>
       pc \notin {"calentar", "inicio", "pool", "starmap", "esperar", "fin", "registrar"}
  /\ \A k \in DOMAIN registro : registro[k].p >= 1

\* C8 as stated: when the p runs are over, every one of the p processes has
\* run exactly one sub-grid.
C8_UnoAUno ==
  (pc = "esperar" /\ Completas) =>
    /\ Len(unidades) = p
    /\ \A u \in DOMAIN unidades : Cardinality(hechas[u]) = 1

Lugares(i) ==
  Cardinality({k \in DOMAIN cola : cola[k].tarea = i})
  + Cardinality({u \in Ocupadas : unidades[u].tarea = i})
  + (IF resultados[i].listo THEN 1 ELSE 0)

\* C8, amended: the pool has exactly p processes and p tasks; every sub-grid
\* is taken at most once, by one process, and is at any time in exactly one
\* place (queued, running in one process, or done); no two processes run the
\* same sub-grid; when starmap is about to return every sub-grid has been
\* run exactly once.
C8_ExactamenteUnaVez ==
  pc = "esperar" =>
    /\ Len(unidades) = p
    /\ Len(resultados) = p
    /\ \A i \in DOMAIN resultados :
         /\ veces[i] <= 1
         /\ Cardinality({u \in DOMAIN unidades : i \in hechas[u]}) = veces[i]
         /\ Lugares(i) = 1
    /\ \A u, v \in Ocupadas : u # v => unidades[u].tarea # unidades[v].tarea
    /\ Completas =>
         /\ \A i \in DOMAIN resultados : veces[i] = 1
         /\ terminadas = p

\* All runs over, one process has run two sub-grids and another none.
C8_Testigo ==
  /\ pc = "esperar"
  /\ Completas
  /\ p >= 2
  /\ \E u \in DOMAIN unidades : Cardinality(hechas[u]) >= 2
  /\ \E u \in DOMAIN unidades : hechas[u] = {}

\* C9: the grid holds the cells it was constructed with at all times, the
\* warm-up included; every sub-grid queued for the timed dispatch and every
\* array a running worker was given holds the cells the partition produced.
C9_SinEfecto ==
  /\ juego.grilla = construida
  /\ \A k \in DOMAIN cola :
       cola[k].sg = vista(construida, array_split(construida, p)[cola[k].tarea])
  /\ \A u \in Ocupadas :
       unidades[u].w.entrada
         = vista(construida, array_split(construida, p)[unidades[u].tarea])

\* After the warm-up on the first sub-grid, a timed worker has stepped the
\* first sub-grid to a different generation.
C9_Testigo ==
  /\ pc = "esperar"
  /\ Ocurrio("calentar")
  /\ pasos >= 1
  /\ \E u \in Ocupadas :
       /\ unidades[u].tarea = 1
       /\ unidades[u].w.quedan = 0
       /\ unidades[u].w.grilla # unidades[u].w.entrada
       /\ worker(vista(construida, subgrillas[1]), 1).grilla
            # vista(construida, subgrillas[1])

\* ==================================================================
\* The kernel on its own: run(), array_split and worker on every band
\* ==================================================================
\* The shapes and contents drawn: every 0/1 grid of at most MaxArea cells.
Formas ==
  {fc \in (1..MaxFilas) \X (1..MaxColumnas) : fc[1] * fc[2] <= MaxArea}

Grillas(f, c) == {Arr(f, c, d) : d \in [1..f -> [1..c -> {0, 1}]]}

HarnessQuieto ==
  /\ celdas_por_proceso = 0
  /\ pasos = 0
  /\ lista_procesos = << >>
  /\ HarnessInicial

InitNucleo ==
  /\ HarnessQuieto
  /\ n_pc = "run"
  /\ \E fc \in Formas :
       \E g \in Grillas(fc[1], fc[2]) :
         \E ps \in -1..MaxPasosNucleo :
           /\ n_juego = JuegoDeLaVida(fc[1], fc[2], ps, 1, g)
           /\ n_inicial = g
  /\ n_hechos = 0
  /\ n_bandas \in 1..MaxBandas
  /\ n_partes = << >>
  /\ n_llamadas = << >>

\* One iteration of run's loop (lines 49, 50).
N_Step ==
  /\ n_pc = "run"
  /\ n_hechos < rango(n_juego.pasos)
  /\ n_juego' = step(n_juego)
  /\ n_hechos' = n_hechos + 1
  /\ UNCHANGED <<harness_vars, n_pc, n_inicial, n_bandas, n_partes, n_llamadas>>

\* run returns.
N_RunRetorna ==
  /\ n_pc = "run"
  /\ n_hechos = rango(n_juego.pasos)
  /\ n_pc' = "split"
  /\ UNCHANGED <<harness_vars, n_juego, n_inicial, n_hechos, n_bandas, n_partes,
                 n_llamadas>>

\* np.array_split of the initial grid into n_bandas bands, and worker entered
\* on each band with the same number of steps.
N_Dividir ==
  /\ n_pc = "split"
  /\ n_partes' = array_split(n_inicial, n_bandas)
  /\ n_llamadas' = [i \in 1..n_bandas |->
                      worker_entra(vista(n_inicial, array_split(n_inicial, n_bandas)[i]),
                                   n_juego.pasos)]
  /\ n_pc' = "workers"
  /\ UNCHANGED <<harness_vars, n_juego, n_inicial, n_hechos, n_bandas>>

\* One iteration of worker's loop on the first band whose call is not over
\* (the calls one after the other, top band first).
N_WorkerPaso ==
  /\ n_pc = "workers"
  /\ \E i \in DOMAIN n_llamadas :
       /\ n_llamadas[i].quedan > 0
       /\ \A k \in 1..(i - 1) : n_llamadas[k].quedan = 0
       /\ n_llamadas' = [n_llamadas EXCEPT ![i] = worker_paso(@)]
  /\ UNCHANGED <<harness_vars, n_pc, n_juego, n_inicial, n_hechos, n_bandas,
                 n_partes>>

\* Every call has returned.
N_WorkersRetornan ==
  /\ n_pc = "workers"
  /\ \A i \in DOMAIN n_llamadas : n_llamadas[i].quedan = 0
  /\ n_pc' = "hecho"
  /\ UNCHANGED <<harness_vars, n_juego, n_inicial, n_hechos, n_bandas, n_partes,
                 n_llamadas>>

NextNucleo ==
  \/ N_Step
  \/ N_RunRetorna
  \/ N_Dividir
  \/ N_WorkerPaso
  \/ N_WorkersRetornan

SpecNucleo == InitNucleo /\ [][NextNucleo]_vars

\* ==================================================================
\* Properties of the kernel (SpecNucleo)
\* ==================================================================
\* The 8 offsets (dr, dc) of {-1, 0, 1}^2 without (0, 0).
Offsets == <<<<-1, -1>>, <<-1, 0>>, <<-1, 1>>, <<0, -1>>, <<0, 1>>,
             <<1, -1>>, <<1, 0>>, <<1, 1>>>>

RECURSIVE SumaVecinos(_, _, _, _)
SumaVecinos(g, r, c, k) ==
  IF k = 0 THEN 0
  ELSE SumaVecinos(g, r, c, k - 1)
       + g.d[((r - 1 + Offsets[k][1]) % g.filas) + 1]
            [((c - 1 + Offsets[k][2]) % g.cols) + 1]

\* N(r, c): the sum of the 8 toroidal neighbours of cell (r, c) of g.
N(g, r, c) == SumaVecinos(g, r, c, Len(Offsets))

\* nueva is the generation after ant: same shape, and a cell is alive iff
\* N = 3, or it was alive and N = 2, N taken on ant.
Generacion(ant, nueva) ==
  /\ nueva.filas = ant.filas
  /\ nueva.cols = ant.cols
  /\ DOMAIN nueva.d = 1..ant.filas
  /\ \A r \in 1..ant.filas :
       /\ DOMAIN nueva.d[r] = 1..ant.cols
       /\ \A c \in 1..ant.cols :
            /\ nueva.d[r][c] \in {0, 1}
            /\ nueva.d[r][c] = 1 <=>
                 (N(ant, r, c) = 3 \/ (ant.d[r][c] = 1 /\ N(ant, r, c) = 2))

\* C1: every step of JuegoDeLaVida (run's loop) and every loop iteration of
\* worker takes the grid to the grid in which cell (r, c) is alive iff
\* N(r, c) = 3, or the cell was alive and N(r, c) = 2, with N the sum of the
\* prior generation at the 8 offsets, rows modulo rows and columns modulo
\* cols; all other cells are dead.
C1_Regla ==
  [][/\ n_hechos' = n_hechos + 1 => Generacion(n_juego.grilla, n_juego'.grilla)
     /\ \A i \in DOMAIN n_llamadas \cap DOMAIN n_llamadas' :
          n_llamadas'[i].quedan = n_llamadas[i].quedan - 1
            => Generacion(n_llamadas[i].grilla, n_llamadas'[i].grilla)]_vars

\* After one step of run and one of worker on the whole grid: a birth, a
\* survival on two neighbours and a death, on a grid of 3 rows or more.
C1_Testigo ==
  /\ n_pc = "hecho"
  /\ n_bandas = 1
  /\ n_juego.pasos = 1
  /\ n_hechos = 1
  /\ n_inicial.filas >= 3
  /\ n_llamadas[1].quedan = 0
  /\ n_llamadas[1].grilla = n_juego.grilla
  /\ \E r \in 1..n_inicial.filas, c \in 1..n_inicial.cols :
       n_inicial.d[r][c] = 0 /\ n_juego.grilla.d[r][c] = 1
  /\ \E r \in 1..n_inicial.filas, c \in 1..n_inicial.cols :
       n_inicial.d[r][c] = 1 /\ N(n_inicial, r, c) = 2 /\ n_juego.grilla.d[r][c] = 1
  /\ \E r \in 1..n_inicial.filas, c \in 1..n_inicial.cols :
       n_inicial.d[r][c] = 1 /\ n_juego.grilla.d[r][c] = 0

Dividido == n_pc \in {"workers", "hecho"}

Tam(v) == v.fin - v.ini

RECURSIVE SumaTam(_, _)
SumaTam(partes, k) == IF k = 0 THEN 0 ELSE SumaTam(partes, k - 1) + Tam(partes[k])

Techo(a, b) == (a + b - 1) \div b

\* C2: for 1 <= n <= R the split yields exactly n bands, their row counts sum
\* to R, each is floor(R/n) or ceil(R/n), each is at least 1, and every band
\* has the parent's column count.
C2_Bandas ==
  (Dividido /\ n_bandas <= n_inicial.filas) =>
    /\ Len(n_partes) = n_bandas
    /\ SumaTam(n_partes, Len(n_partes)) = n_inicial.filas
    /\ \A i \in DOMAIN n_partes :
         /\ Tam(n_partes[i]) \in {n_inicial.filas \div n_bandas,
                                  Techo(n_inicial.filas, n_bandas)}
         /\ Tam(n_partes[i]) >= 1
         /\ vista(n_inicial, n_partes[i]).filas = Tam(n_partes[i])
         /\ Len(vista(n_inicial, n_partes[i]).d) = Tam(n_partes[i])
         /\ vista(n_inicial, n_partes[i]).cols = n_inicial.cols
         /\ \A r \in 1..Tam(n_partes[i]) :
              Len(vista(n_inicial, n_partes[i]).d[r]) = n_inicial.cols
    /\ \A i, k \in DOMAIN n_partes :
         Tam(n_partes[i]) - Tam(n_partes[k]) \in {-1, 0, 1}

\* 5 rows in 3 bands: a remainder of 2.
C2_Testigo ==
  /\ Dividido
  /\ n_inicial.filas = 5
  /\ n_bandas = 3
  /\ Tam(n_partes[1]) = 2
  /\ Tam(n_partes[3]) = 1

\* np.concatenate(arrays, axis=0) of arrays of cols columns.
RECURSIVE FilasJuntas(_, _)
FilasJuntas(arrs, k) ==
  IF k = 0 THEN << >> ELSE FilasJuntas(arrs, k - 1) \o arrs[k].d

concatenar(arrs, cols) ==
  Arr(Len(FilasJuntas(arrs, Len(arrs))), cols, FilasJuntas(arrs, Len(arrs)))

\* C3: for 1 <= n <= R the bands are contiguous, non-overlapping and ordered
\* top to bottom, and concatenating their rows in order gives the original
\* grid: same rows in the same order, none duplicated, none missing.
C3_Reensamblado ==
  (Dividido /\ n_bandas <= n_inicial.filas) =>
    /\ n_partes[1].ini = 0
    /\ n_partes[Len(n_partes)].fin = n_inicial.filas
    /\ \A i \in DOMAIN n_partes : n_partes[i].ini <= n_partes[i].fin
    /\ \A i \in 1..(Len(n_partes) - 1) : n_partes[i].fin = n_partes[i + 1].ini
    /\ concatenar([i \in DOMAIN n_partes |-> vista(n_inicial, n_partes[i])],
                  n_inicial.cols) = n_inicial
    /\ concatenar([i \in DOMAIN n_llamadas |-> n_llamadas[i].entrada],
                  n_inicial.cols) = n_inicial

\* A grid whose rows are pairwise different, split in bands of unequal size.
C3_Testigo ==
  /\ Dividido
  /\ n_bandas >= 2
  /\ n_bandas < n_inicial.filas
  /\ n_inicial.filas % n_bandas # 0
  /\ \A i, k \in 1..n_inicial.filas : i # k => n_inicial.d[i] # n_inicial.d[k]

\* What the bands' workers return, put together in order.
Paralelo == concatenar([i \in DOMAIN n_llamadas |-> n_llamadas[i].grilla],
                       n_inicial.cols)

paralelo(g, n, ps) ==
  concatenar([i \in 1..n |-> worker(vista(g, array_split(g, n)[i]), ps).grilla],
             g.cols)

\* For every number of bands from 2 and every number of steps from 1 a grid
\* with at least one row per band on which the banded result is not the
\* result of run on the whole grid.
ExisteDivergencia ==
  \A n \in 2..MaxBandas, ps \in 1..MaxPasosNucleo :
    \E fc \in Formas :
      /\ fc[1] >= n
      /\ \E g \in Grillas(fc[1], fc[2]) :
           paralelo(g, n, ps) # run(JuegoDeLaVida(fc[1], fc[2], ps, 1, g)).grilla

\* C10: with one band the workers' result is the result of run on the whole
\* grid, for every grid; with two or more bands and at least one step there
\* is a grid on which the two differ.
C10_Fidelidad ==
  /\ (n_pc = "hecho" /\ n_bandas = 1) => Paralelo = n_juego.grilla
  /\ ExisteDivergencia

\* Two or more non-empty bands, at least one step, and the banded result is
\* not the whole grid's.
C10_Testigo ==
  /\ n_pc = "hecho"
  /\ n_bandas >= 2
  /\ n_bandas <= n_inicial.filas
  /\ n_juego.pasos >= 1
  /\ n_hechos = n_juego.pasos
  /\ Paralelo # n_juego.grilla

====
